---- MODULE Spec2Model ----
(***************************************************************************)
(* DGR (src/dgr.c): a master process shares named byte buffers with slave  *)
(* processes through UDP datagrams.  The module models the record list     *)
(* (dgr_list), the wire codec (dgr_serialize / dgr_unserialize) and the    *)
(* send / receive / liveness logic behind dgr_update, for one master and   *)
(* one slave process joined by a datagram network.                         *)
(***************************************************************************)
EXTENDS Integers, Sequences, FiniteSets, TLC

(***************************************************************************)
(* Program constants.                                                      *)
(***************************************************************************)
DGR_MAX_LIST_SIZE == 1024       \* #define DGR_MAX_LIST_SIZE
LivenessSeconds == 15           \* int seconds = 15 in dgr_receive
GraceTimeoutMs == 10000         \* dgr_receive(10000) in dgr_update
SizeofInt == 4                  \* sizeof(int)

(***************************************************************************)
(* Bounds of the model.                                                    *)
(***************************************************************************)
MaxSends == 2                   \* packets the master hands to the network
MaxQueue == 2                   \* datagrams pending at the slave's socket
MaxTime == 16                   \* last value of the wall clock, in seconds
TailLen == 1                    \* bytes of the receive buffer modelled beyond a packet
MaxRecords == 2                 \* records of a list handed to the codec
MaxDatagramLen == 7             \* bytes of a hand-made datagram

\* sequences over S of length exactly n / at most n
RECURSIVE SeqsOfLen(_, _)
SeqsOfLen(S, n) ==
    IF n = 0 THEN {<<>>}
    ELSE {Append(s, x) : s \in SeqsOfLen(S, n - 1), x \in S}

RECURSIVE SeqsUpTo(_, _)
SeqsUpTo(S, n) ==
    IF n = 0 THEN {<<>>} ELSE SeqsOfLen(S, n) \cup SeqsUpTo(S, n - 1)

Take(s, n) == SubSeq(s, 1, IF n < Len(s) THEN n ELSE Len(s))
Drop(s, n) == SubSeq(s, n + 1, Len(s))
Last(s) == s[Len(s)]

(***************************************************************************)
(* The record list.  A dgr_record is [name, size, buffer]: name is the C   *)
(* string without its terminator (a sequence of non-zero bytes), buffer    *)
(* the malloc'ed bytes.  A list is the used part dgr_list[0..size-1];      *)
(* index i of the code is element i+1 of the sequence.                     *)
(***************************************************************************)
dgr_record(name, size, buffer) ==
    [name |-> name, size |-> size, buffer |-> buffer]

\* mutant: the loop starts at index 1
dgr_findIndex_SkipFirst(list, name) ==
    LET found == {i \in 1..(Len(list) - 1) : list[i + 1].name = name}
    IN  IF found = {} THEN -1
        ELSE CHOOSE i \in found : \A j \in found : i <= j

\* dgr_findIndex: the first index whose name compares equal, -1 if none
\* (the loop over 0 .. dgr_list_size - 1 returns at the first match)
dgr_findIndex(list, name) ==
    LET found == {i \in 0..(Len(list) - 1) : list[i + 1].name = name}
    IN  IF found = {} THEN -1
        ELSE CHOOSE i \in found : \A j \in found : i <= j

\* memcpy(dst, src, n) into a fresh buffer of n bytes: the first n bytes of src
Memcpy(src, n) == SubSeq(src, 1, n)

\* memcpy(buffer, rec->buffer, rec->size): the first rec->size bytes of the
\* caller's buffer are overwritten, the rest is kept
MemcpyInto(dst, src, n) == SubSeq(src, 1, n) \o SubSeq(dst, n + 1, Len(dst))

(***************************************************************************)
(* dgr_get on an enabled process: [ret, buffer].  ret is the record's size,*)
(* -1 for an unknown name, -2 for a buffer that is too small.              *)
(***************************************************************************)
\* mutant: a buffer that is too small is filled as far as it goes
dgr_get_Truncating(list, name, buffer, bufferSize) ==
    LET index == dgr_findIndex(list, name) IN
    IF index = -1 THEN [ret |-> -1, buffer |-> buffer]
    ELSE LET rec == list[index + 1] IN
         IF bufferSize >= rec.size
         THEN [ret |-> rec.size, buffer |-> MemcpyInto(buffer, rec.buffer, rec.size)]
         ELSE [ret |-> -2, buffer |-> MemcpyInto(buffer, rec.buffer, bufferSize)]

dgr_get(list, name, buffer, bufferSize) ==
    LET index == dgr_findIndex(list, name) IN
    IF index = -1 THEN [ret |-> -1, buffer |-> buffer]
    ELSE LET rec == list[index + 1] IN
         IF bufferSize >= rec.size
         THEN [ret |-> rec.size, buffer |-> MemcpyInto(buffer, rec.buffer, rec.size)]
         ELSE [ret |-> -2, buffer |-> buffer]

(***************************************************************************)
(* dgr_set on an enabled process: [list, status].  status is "ok", "exit"  *)
(* (the list-full message followed by exit(1)) or "crash".  A new name is  *)
(* written to dgr_list[dgr_list_size]; the guard before it is              *)
(* dgr_list_size > DGR_MAX_LIST_SIZE, so with dgr_list_size equal to       *)
(* DGR_MAX_LIST_SIZE the write goes one element past the array.  That is   *)
(* undefined behaviour: ub chooses between the write landing in the memory *)
(* behind the table ("benign") and the process dying ("crash").            *)
(***************************************************************************)
UBOutcomes == {"benign", "crash"}

\* mutant: a shorter value is copied into the buffer the record has
dgr_set_ReuseBuffer(list, name, buffer, size, ub) ==
    LET index == dgr_findIndex(list, name) IN
    IF index = -1
    THEN IF Len(list) > DGR_MAX_LIST_SIZE
         THEN [list |-> list, status |-> "exit"]
         ELSE IF Len(list) >= DGR_MAX_LIST_SIZE /\ ub = "crash"
         THEN [list |-> list, status |-> "crash"]
         ELSE [list |-> Append(list, dgr_record(name, size, Memcpy(buffer, size))),
               status |-> "ok"]
    ELSE [list |-> [list EXCEPT ![index + 1] =
                        IF size < list[index + 1].size
                        THEN dgr_record(list[index + 1].name, list[index + 1].size,
                                        MemcpyInto(list[index + 1].buffer, buffer, size))
                        ELSE dgr_record(list[index + 1].name, size, Memcpy(buffer, size))],
          status |-> "ok"]

\* mutant: an overwrite copies the bytes only when the size changes
dgr_set_CopyOnResize(list, name, buffer, size, ub) ==
    LET index == dgr_findIndex(list, name) IN
    IF index = -1
    THEN IF Len(list) > DGR_MAX_LIST_SIZE
         THEN [list |-> list, status |-> "exit"]
         ELSE IF Len(list) >= DGR_MAX_LIST_SIZE /\ ub = "crash"
         THEN [list |-> list, status |-> "crash"]
         ELSE [list |-> Append(list, dgr_record(name, size, Memcpy(buffer, size))),
               status |-> "ok"]
    ELSE [list |-> [list EXCEPT ![index + 1] =
                        IF list[index + 1].size # size
                        THEN dgr_record(list[index + 1].name, size, Memcpy(buffer, size))
                        ELSE list[index + 1]],
          status |-> "ok"]

dgr_set(list, name, buffer, size, ub) ==
    LET index == dgr_findIndex(list, name) IN
    IF index = -1
    THEN IF Len(list) > DGR_MAX_LIST_SIZE
         THEN [list |-> list, status |-> "exit"]
         ELSE IF Len(list) >= DGR_MAX_LIST_SIZE /\ ub = "crash"
         THEN [list |-> list, status |-> "crash"]
         ELSE [list |-> Append(list, dgr_record(name, size, Memcpy(buffer, size))),
               status |-> "ok"]
    ELSE [list |-> [list EXCEPT ![index + 1] =
                        dgr_record(list[index + 1].name, size, Memcpy(buffer, size))],
          status |-> "ok"]

(***************************************************************************)
(* The wire codec.  An int is sizeof(int) bytes in host order (modelled    *)
(* little-endian, two's complement).                                       *)
(***************************************************************************)
IntToBytes(n) ==
    << n % 256, (n \div 256) % 256, (n \div 65536) % 256, (n \div 16777216) % 256 >>

BytesToInt(b) ==
    LET top == IF b[4] >= 128 THEN b[4] - 256 ELSE b[4] IN
    b[1] + 256 * b[2] + 65536 * b[3] + 16777216 * top

\* the bytes of a buffer up to its first 0 byte
RECURSIVE UpToNul(_)
UpToNul(b) == IF b = <<>> \/ Head(b) = 0 THEN <<>> ELSE <<Head(b)>> \o UpToNul(Tail(b))

\* mutant: the data are printed like the name, as a string
SerializeRecord_AsString(rec) ==
    rec.name \o <<0>> \o IntToBytes(rec.size) \o UpToNul(Memcpy(rec.buffer, rec.size))

\* one iteration of the second loop of dgr_serialize
SerializeRecord(rec) ==
    rec.name \o <<0>> \o IntToBytes(rec.size) \o Memcpy(rec.buffer, rec.size)

RECURSIVE SerializeFrom(_, _)
SerializeFrom(list, i) ==
    IF i >= Len(list) THEN <<>>
    ELSE SerializeRecord(list[i + 1]) \o SerializeFrom(list, i + 1)

\* dgr_serialize: the bytes; *size is their number
dgr_serialize(list) == SerializeFrom(list, 0)

\* mutant: the terminator of the name is not counted
RECURSIVE SpaceNeededFrom_NoTerminator(_, _)
SpaceNeededFrom_NoTerminator(list, i) ==
    IF i >= Len(list) THEN 0
    ELSE Len(list[i + 1].name) + SizeofInt + list[i + 1].size
         + SpaceNeededFrom_NoTerminator(list, i + 1)

RECURSIVE SpaceNeededFrom(_, _)
SpaceNeededFrom(list, i) ==
    IF i >= Len(list) THEN 0
    ELSE Len(list[i + 1].name) + 1 + SizeofInt + list[i + 1].size
         + SpaceNeededFrom(list, i + 1)

\* the first loop of dgr_serialize
SpaceNeeded(list) == SpaceNeededFrom(list, 0)

(***************************************************************************)
(* dgr_unserialize(size, serialized) on the list: [list, status, oob].     *)
(* mem is the receive buffer: its first size bytes are the packet, the     *)
(* rest is whatever the buffer held.  ptr is the offset of the cursor.     *)
(* Nothing in the loop compares a read against size, so a read may reach   *)
(* mem at or beyond offset size (oob); a read beyond the modelled memory,  *)
(* and a negative size field (char data[size], memcpy of (size_t)size      *)
(* bytes), end the process ("crash").                                      *)
(***************************************************************************)
\* while(*ptr != 0) ptr++ : the offset of the first 0 byte at or after ptr,
\* Len(mem) when there is none
RECURSIVE ScanName(_, _)
ScanName(mem, ptr) ==
    IF ptr >= Len(mem) THEN Len(mem)
    ELSE IF mem[ptr + 1] = 0 THEN ptr
    ELSE ScanName(mem, ptr + 1)

RECURSIVE UnserializeFrom(_, _, _, _, _, _)
UnserializeFrom(list, size, mem, ptr, oob, ub) ==
    IF ptr >= size THEN [list |-> list, status |-> "ok", oob |-> oob]
    ELSE
    LET nul == ScanName(mem, ptr)
        name == SubSeq(mem, ptr + 1, nul)
        sizeAt == nul + 1
        dataAt == sizeAt + SizeofInt
    IN  IF dataAt > Len(mem)
        THEN [list |-> list, status |-> "crash", oob |-> TRUE]
        ELSE
        LET recSize == BytesToInt(SubSeq(mem, sizeAt + 1, dataAt))
        IN  IF recSize < 0 \/ recSize > Len(mem) - dataAt
            THEN [list |-> list, status |-> "crash",
                  oob |-> oob \/ dataAt > size \/ recSize > size - dataAt]
            ELSE
            LET next == dataAt + recSize
                data == SubSeq(mem, dataAt + 1, next)
                set == dgr_set(list, name, data, recSize, ub)
                oob2 == oob \/ dataAt > size \/ next > size
            IN  IF set.status # "ok"
                THEN [list |-> set.list, status |-> set.status, oob |-> oob2]
                ELSE UnserializeFrom(set.list, size, mem, next, oob2, ub)

\* mutant: the list is emptied before the records are applied
dgr_unserialize_Replace(list, size, mem, ub) ==
    UnserializeFrom(<<>>, size, mem, 0, FALSE, ub)

\* mutant: an if in place of the while, only the first record is applied
dgr_unserialize_FirstOnly(list, size, mem, ub) ==
    UnserializeFrom(list, IF size = 0 THEN 0 ELSE 1, mem, 0, FALSE, ub)

dgr_unserialize(list, size, mem, ub) == UnserializeFrom(list, size, mem, 0, FALSE, ub)

(***************************************************************************)
(* The system: one master process and one slave process, each with its own *)
(* copy of the file's static variables, joined by a datagram network.      *)
(***************************************************************************)
VARIABLES
    dgr_list,               \* [process -> its record list]
    dgr_disabled,           \* [process -> 0 or 1]
    dgr_time_lastreceive,   \* the slave's, 0 while nothing was received
    status,                 \* [process -> "running" or how it ended]
    now,                    \* what time(NULL) returns on the slave, in seconds
    sent,                   \* the datagrams sendto has accepted
    nsends,                 \* the number of sendto calls
    net,                    \* the datagrams in flight
    sockq,                  \* datagrams pending at the slave's socket, oldest first
    pc,                     \* where the slave is: "idle", or blocked in "poll" / "recvfrom"
    pollDeadline,           \* when the blocking poll times out
    nrecv,                  \* recvfrom calls that returned in the last dgr_receive
    oob,                    \* the last dgr_unserialize read outside its packet
    written,                \* [name -> the bytes of the master's last dgr_setget of it]
    call                    \* the slave application's last call into DGR

vars == << dgr_list, dgr_disabled, dgr_time_lastreceive, status, now, sent, nsends,
           net, sockq, pc, pollDeadline, nrecv, oob, written, call >>

Procs == {"master", "slave"}

\* dgr_mode as dgr_init leaves it: 1 for DGR_MODE=master, 0 for DGR_MODE=slave
dgr_mode(p) == IF p = "master" THEN 1 ELSE 0

\* names and values the applications use
Names == {<<1>>, <<2>>}
Values == {<<1>>, <<2>>}
Bytes == {0, 1, 2}
Tails == SeqsOfLen(Bytes, TailLen)
Fill == 9
TickSteps == {5}                \* seconds the clock advances by in one step
BufferSizes == {0, 1, 2}
FreshBuffer(n) == [i \in 1..n |-> Fill]
\* no call yet; dgr_update
NoCall == [op |-> "none"]
UpdateCall == [op |-> "update"]
SetGetCall(name, bufferSize, ret, buffer) ==
    [op |-> "setget", name |-> name, bufferSize |-> bufferSize, ret |-> ret,
     buffer |-> buffer]

Init ==
    /\ dgr_list = [p \in Procs |-> <<>>]
    /\ dgr_disabled = [p \in Procs |-> 0]
    /\ dgr_time_lastreceive = 0
    /\ status = [p \in Procs |-> "running"]
    /\ now = 1
    /\ sent = {}
    /\ nsends = 0
    /\ net = {}
    /\ sockq = <<>>
    /\ pc = "idle"
    /\ pollDeadline = 0
    /\ nrecv = 0
    /\ oob = FALSE
    /\ written = <<>>
    /\ call = NoCall

Running(p) == status[p] = "running"

(***************************************************************************)
(* dgr_setget on the master: dgr_set(name, buffer, bufferSize).            *)
(***************************************************************************)
\* mutant: neither dgr_setget nor dgr_set tests dgr_disabled
MasterSetGet_NoDisabledTest(name, buffer, ub) ==
    /\ Running("master")
    /\ LET set == dgr_set(dgr_list["master"], name, buffer, Len(buffer), ub) IN
       /\ dgr_list' = [dgr_list EXCEPT !["master"] = set.list]
       /\ status' = [status EXCEPT !["master"] =
                         IF set.status = "ok" THEN "running" ELSE set.status]
       /\ written' = IF set.status = "ok"
                     THEN (name :> buffer) @@ written ELSE written
    /\ UNCHANGED << dgr_disabled, dgr_time_lastreceive, now, sent, nsends, net, sockq, pc,
                    pollDeadline, nrecv, oob, call >>

MasterSetGet(name, buffer, ub) ==
    /\ Running("master")
    /\ IF dgr_disabled["master"] = 1
       THEN UNCHANGED << dgr_list, status, written >>
       ELSE LET set == dgr_set(dgr_list["master"], name, buffer, Len(buffer), ub) IN
            /\ dgr_list' = [dgr_list EXCEPT !["master"] = set.list]
            /\ status' = [status EXCEPT !["master"] =
                              IF set.status = "ok" THEN "running" ELSE set.status]
            /\ written' = IF set.status = "ok"
                          THEN (name :> buffer) @@ written ELSE written
    /\ UNCHANGED << dgr_disabled, dgr_time_lastreceive, now, sent, nsends, net, sockq, pc,
                    pollDeadline, nrecv, oob, call >>

(***************************************************************************)
(* dgr_update on the master: dgr_send.  sendto returns the number of bytes *)
(* ("ok"), -1 ("error") or a smaller number ("short"); a datagram is       *)
(* handed to the network whole or not at all.                              *)
(***************************************************************************)
SendOutcomes == {"ok", "error", "short"}

\* mutant: no test for the empty list
MasterUpdate_SendsEmpty(outcome) ==
    /\ Running("master")
    /\ nsends < MaxSends
    /\ LET buf == dgr_serialize(dgr_list["master"])
           bufSize == SpaceNeeded(dgr_list["master"])
       IN  IF dgr_disabled["master"] = 1
           THEN UNCHANGED << status, sent, nsends, net >>
           ELSE /\ nsends' = nsends + 1
                /\ IF outcome = "ok"
                   THEN /\ sent' = sent \cup {Take(buf, bufSize)}
                        /\ net' = net \cup {Take(buf, bufSize)}
                        /\ UNCHANGED status
                   ELSE /\ status' = [status EXCEPT !["master"] = "sendto"]
                        /\ UNCHANGED << sent, net >>
    /\ UNCHANGED << dgr_list, dgr_disabled, dgr_time_lastreceive, now, sockq, pc,
                    pollDeadline, nrecv, oob, written, call >>

MasterUpdate(outcome) ==
    /\ Running("master")
    /\ nsends < MaxSends
    /\ LET buf == dgr_serialize(dgr_list["master"])
           bufSize == SpaceNeeded(dgr_list["master"])
       IN  IF dgr_disabled["master"] = 1
              \/ bufSize = 0 \/ Len(dgr_list["master"]) = 0
           THEN UNCHANGED << status, sent, nsends, net >>
           ELSE /\ nsends' = nsends + 1
                /\ IF outcome = "ok"
                   THEN /\ sent' = sent \cup {Take(buf, bufSize)}
                        /\ net' = net \cup {Take(buf, bufSize)}
                        /\ UNCHANGED status
                   ELSE /\ status' = [status EXCEPT !["master"] = "sendto"]
                        /\ UNCHANGED << sent, net >>
    /\ UNCHANGED << dgr_list, dgr_disabled, dgr_time_lastreceive, now, sockq, pc,
                    pollDeadline, nrecv, oob, written, call >>

(***************************************************************************)
(* The network: a datagram in flight reaches the slave's socket or is      *)
(* lost; datagrams overtake each other.                                    *)
(***************************************************************************)
Deliver(d) ==
    /\ d \in net
    /\ Running("slave")
    /\ Len(sockq) < MaxQueue
    /\ sockq' = Append(sockq, d)
    /\ net' = net \ {d}
    /\ UNCHANGED << dgr_list, dgr_disabled, dgr_time_lastreceive, status, now, sent, nsends,
                    pc, pollDeadline, nrecv, oob, written, call >>

Lose(d) ==
    /\ d \in net
    /\ net' = net \ {d}
    /\ UNCHANGED << dgr_list, dgr_disabled, dgr_time_lastreceive, status, now, sent, nsends,
                    sockq, pc, pollDeadline, nrecv, oob, written, call >>

(***************************************************************************)
(* The slave's clock.  The code reads it relative to the time stamp (the   *)
(* liveness test) and to the start of a poll, so it is followed from the   *)
(* slave's first blocking poll or first time stamp on.  A slave blocked in *)
(* poll(timeout) is woken at its deadline.                                 *)
(***************************************************************************)
Tick(d) ==
    /\ Running("slave")
    /\ pc = "poll" \/ dgr_time_lastreceive # 0
    /\ now + d <= MaxTime
    /\ pc = "poll" => now < pollDeadline
    /\ now' = IF pc = "poll" /\ now + d > pollDeadline
              THEN pollDeadline ELSE now + d
    /\ UNCHANGED << dgr_list, dgr_disabled, dgr_time_lastreceive, status, sent, nsends, net,
                    sockq, pc, pollDeadline, nrecv, oob, written, call >>

(***************************************************************************)
(* The read loop of dgr_receive, entered with the datagrams q pending and  *)
(* n recvfrom calls already returned: recvfrom, then poll(0), until poll   *)
(* returns 0.  recvErrAt is the recvfrom call that returns -1 (0: none);   *)
(* pollFail makes the poll that finds nothing pending return -1 instead of *)
(* 0.  The code leaves the loop on retval == 0 only, so after a failed     *)
(* poll it calls recvfrom again, which blocks while nothing is pending.    *)
(* Result: kind "done" (loop left), "block" (inside recvfrom) or "error"   *)
(* (recvfrom failed); last is the datagram in serialized.                  *)
(***************************************************************************)
\* mutant: the loop drains the socket but keeps the first datagram it read
ReadLoop_KeepFirst(q, last, n, recvErrAt, pollFail) ==
    IF recvErrAt = n + 1 THEN [kind |-> "error", last |-> last, n |-> n, q |-> q]
    ELSE IF q = <<>> THEN [kind |-> "block", last |-> last, n |-> n, q |-> q]
    ELSE [kind |-> "done", last |-> Head(q), n |-> n + Len(q), q |-> <<>>]

RECURSIVE ReadLoop(_, _, _, _, _)
ReadLoop(q, last, n, recvErrAt, pollFail) ==
    IF recvErrAt = n + 1 THEN [kind |-> "error", last |-> last, n |-> n, q |-> q]
    ELSE IF q = <<>> THEN [kind |-> "block", last |-> last, n |-> n, q |-> q]
    ELSE IF Tail(q) = <<>> /\ ~pollFail
         THEN [kind |-> "done", last |-> Head(q), n |-> n + 1, q |-> <<>>]
         ELSE ReadLoop(Tail(q), Head(q), n + 1, recvErrAt, pollFail)

\* The bytes behind a datagram matter to a dgr_unserialize that reads beyond
\* it, the outcome of the write past the table to a list that is full.
TailsFor(d) ==
    IF dgr_unserialize(<<>>, Len(d), d, "benign").oob THEN Tails ELSE {<<>>}

UBFor(list) == IF Len(list) >= DGR_MAX_LIST_SIZE THEN UBOutcomes ELSE {"benign"}

(***************************************************************************)
(* dgr_receive from the read loop on: the loop, then the time stamp, then  *)
(* dgr_unserialize(numbytes, serialized).  tail is what serialized holds   *)
(* behind the datagram.                                                    *)
(***************************************************************************)
\* mutant: the time stamp is taken before the read loop
Receive_StampBeforeLoop(n, recvErrAt, pollFail) ==
    LET loop == ReadLoop(sockq, <<>>, n, recvErrAt, pollFail) IN
    /\ nrecv' = loop.n
    /\ dgr_time_lastreceive' = now
    /\ IF loop.kind = "error"
       THEN /\ status' = [status EXCEPT !["slave"] = "recvfrom"]
            /\ pc' = "idle"
            /\ sockq' = loop.q
            /\ UNCHANGED << dgr_list, oob >>
       ELSE IF loop.kind = "block"
       THEN /\ pc' = "recvfrom"
            /\ sockq' = loop.q
            /\ UNCHANGED << dgr_list, status, oob >>
       ELSE \E tail \in TailsFor(loop.last), ub \in UBFor(dgr_list["slave"]) :
            LET numbytes == Len(loop.last)
                un == dgr_unserialize(dgr_list["slave"], numbytes, loop.last \o tail, ub)
            IN  /\ pc' = "idle"
                /\ sockq' = loop.q
                /\ dgr_list' = [dgr_list EXCEPT !["slave"] = un.list]
                /\ status' = [status EXCEPT !["slave"] =
                                  IF un.status = "ok" THEN "running" ELSE un.status]
                /\ oob' = un.oob

Receive(n, recvErrAt, pollFail) ==
    LET loop == ReadLoop(sockq, <<>>, n, recvErrAt, pollFail) IN
    /\ nrecv' = loop.n
    /\ IF loop.kind = "error"
       THEN /\ status' = [status EXCEPT !["slave"] = "recvfrom"]
            /\ pc' = "idle"
            /\ sockq' = loop.q
            /\ UNCHANGED << dgr_list, dgr_time_lastreceive, oob >>
       ELSE IF loop.kind = "block"
       THEN /\ pc' = "recvfrom"
            /\ sockq' = loop.q
            /\ UNCHANGED << dgr_list, dgr_time_lastreceive, status, oob >>
       ELSE \E tail \in TailsFor(loop.last), ub \in UBFor(dgr_list["slave"]) :
            LET numbytes == Len(loop.last)
                un == dgr_unserialize(dgr_list["slave"], numbytes, loop.last \o tail, ub)
            IN  /\ pc' = "idle"
                /\ sockq' = loop.q
                /\ dgr_time_lastreceive' = now
                /\ dgr_list' = [dgr_list EXCEPT !["slave"] = un.list]
                /\ status' = [status EXCEPT !["slave"] =
                                  IF un.status = "ok" THEN "running" ELSE un.status]
                /\ oob' = un.oob

(***************************************************************************)
(* dgr_update on the slave: dgr_receive(10000) while nothing was ever      *)
(* received, dgr_receive(0) afterwards.  pollErr: the first poll returns   *)
(* -1.  A poll with a timeout that finds nothing pending blocks.           *)
(***************************************************************************)
\* mutant: > in place of >=
LivenessExpired_Strict ==
    dgr_time_lastreceive # 0 /\ now - dgr_time_lastreceive > LivenessSeconds

\* the test at the head of dgr_receive
LivenessExpired ==
    dgr_time_lastreceive # 0 /\ now - dgr_time_lastreceive >= LivenessSeconds

\* mutant: the test of dgr_update is inverted
UpdateTimeout_Inverted == IF dgr_time_lastreceive = 0 THEN 0 ELSE GraceTimeoutMs

\* mutant: dgr_update always allows for the delay
UpdateTimeout_Always == GraceTimeoutMs

\* the timeout dgr_update passes to dgr_receive, in milliseconds
UpdateTimeout == IF dgr_time_lastreceive = 0 THEN GraceTimeoutMs ELSE 0

SlaveUpdate(pollErr, recvErrAt, pollFail) ==
    /\ Running("slave")
    /\ pc = "idle"
    /\ call' = UpdateCall
    /\ IF dgr_disabled["slave"] = 1
       THEN UNCHANGED << dgr_list, dgr_time_lastreceive, status, sockq, pc,
                         pollDeadline, nrecv, oob >>
       ELSE IF LivenessExpired
       THEN /\ status' = [status EXCEPT !["slave"] = "liveness"]
            /\ nrecv' = 0
            /\ UNCHANGED << dgr_list, dgr_time_lastreceive, sockq, pc, pollDeadline,
                            oob >>
       ELSE IF pollErr
       THEN /\ status' = [status EXCEPT !["slave"] = "poll"]
            /\ nrecv' = 0
            /\ UNCHANGED << dgr_list, dgr_time_lastreceive, sockq, pc, pollDeadline,
                            oob >>
       ELSE IF sockq = <<>>
       THEN /\ nrecv' = 0
            /\ IF UpdateTimeout > 0
               THEN /\ pc' = "poll"
                    /\ pollDeadline' = now + (UpdateTimeout \div 1000)
               ELSE UNCHANGED << pc, pollDeadline >>
            /\ UNCHANGED << dgr_list, dgr_time_lastreceive, status, sockq, oob >>
       ELSE /\ Receive(0, recvErrAt, pollFail)
            /\ UNCHANGED pollDeadline
    /\ UNCHANGED << dgr_disabled, now, sent, nsends, net, written >>

\* the blocking poll returns because a datagram arrived
SlavePollReady(recvErrAt, pollFail) ==
    /\ Running("slave")
    /\ pc = "poll"
    /\ sockq # <<>>
    /\ Receive(0, recvErrAt, pollFail)
    /\ UNCHANGED << dgr_disabled, now, sent, nsends, net, pollDeadline, written, call >>

\* the blocking poll returns 0 at its deadline: exit(1)
SlavePollTimeout ==
    /\ Running("slave")
    /\ pc = "poll"
    /\ sockq = <<>>
    /\ now >= pollDeadline
    /\ status' = [status EXCEPT !["slave"] = "timeout"]
    /\ pc' = "idle"
    /\ UNCHANGED << dgr_list, dgr_disabled, dgr_time_lastreceive, now, sent, nsends, net,
                    sockq, pollDeadline, nrecv, oob, written, call >>

\* the blocking poll returns -1: exit(1)
SlavePollError ==
    /\ Running("slave")
    /\ pc = "poll"
    /\ status' = [status EXCEPT !["slave"] = "poll"]
    /\ pc' = "idle"
    /\ UNCHANGED << dgr_list, dgr_disabled, dgr_time_lastreceive, now, sent, nsends, net,
                    sockq, pollDeadline, nrecv, oob, written, call >>

\* the recvfrom the read loop blocked in returns
SlaveRecvReturn(recvErrAt, pollFail) ==
    /\ Running("slave")
    /\ pc = "recvfrom"
    /\ sockq # <<>> \/ recvErrAt = nrecv + 1
    /\ Receive(nrecv, recvErrAt, pollFail)
    /\ UNCHANGED << dgr_disabled, now, sent, nsends, net, pollDeadline, written, call >>

(***************************************************************************)
(* dgr_setget on the slave: dgr_get(name, buffer, bufferSize) into a       *)
(* buffer of bufferSize bytes the application filled with Fill.            *)
(***************************************************************************)
SlaveSetGet(name, bufferSize) ==
    /\ Running("slave")
    /\ pc = "idle"
    /\ IF dgr_disabled["slave"] = 1
       THEN call' = SetGetCall(name, bufferSize, -3, FreshBuffer(bufferSize))
       ELSE LET get == dgr_get(dgr_list["slave"], name, FreshBuffer(bufferSize), bufferSize)
            IN  call' = SetGetCall(name, bufferSize, get.ret, get.buffer)
    /\ UNCHANGED << dgr_list, dgr_disabled, dgr_time_lastreceive, status, now, sent, nsends,
                    net, sockq, pc, pollDeadline, nrecv, oob, written >>

Next ==
    \/ \E name \in Names, buffer \in Values, ub \in UBFor(dgr_list["master"]) :
           MasterSetGet(name, buffer, ub)
    \/ \E outcome \in SendOutcomes : MasterUpdate(outcome)
    \/ \E d \in net : Deliver(d)
    \/ \E d \in net : Lose(d)
    \/ \E d \in TickSteps : Tick(d)
    \/ \E pollErr, pollFail \in BOOLEAN, recvErrAt \in 0..MaxQueue :
           SlaveUpdate(pollErr, recvErrAt, pollFail)
    \/ \E pollFail \in BOOLEAN, recvErrAt \in 0..MaxQueue :
           SlavePollReady(recvErrAt, pollFail)
    \/ SlavePollTimeout
    \/ SlavePollError
    \/ \E pollFail \in BOOLEAN, recvErrAt \in 0..MaxQueue :
           SlaveRecvReturn(recvErrAt, pollFail)

Spec == Init /\ [][Next]_vars

(***************************************************************************)
(* Vocabulary of the properties.                                           *)
(***************************************************************************)
NamesOf(list) == {list[i].name : i \in 1..Len(list)}

\* a list seen as a name -> bytes map
AsMap(list) == {<< list[i].name, list[i].buffer >> : i \in 1..Len(list)}

\* the lists of exactly k records with distinct names from N and values from V
RECURSIVE ListsOfLen(_, _, _)
ListsOfLen(N, V, k) ==
    IF k = 0 THEN {<<>>}
    ELSE UNION {{Append(l, dgr_record(n, Len(v), v)) : n \in N \ NamesOf(l), v \in V} :
                l \in ListsOfLen(N, V, k - 1)}

\* every record list the master of Spec can hold
MasterLists == UNION {ListsOfLen(Names, Values, k) : k \in 0..Cardinality(Names)}

\* the snapshots whose serialization is the datagram d
SnapshotsOf(d) == {R \in MasterLists : dgr_serialize(R) = d}

\* datagram and map of every list the master of Spec can hold
MasterWires == {<<dgr_serialize(R), AsMap(R)>> : R \in MasterLists}

SlaveList == dgr_list["slave"]
MasterList == dgr_list["master"]

(***************************************************************************)
(* C1.  A slave update that starts with k >= 1 datagrams pending and       *)
(* returns without having blocked consumes all k of them and applies only  *)
(* the last: afterwards every name of the last datagram has that           *)
(* datagram's bytes and every other record is as it was before the call,   *)
(* whatever the earlier datagrams of the drain carried.                    *)
(***************************************************************************)
DrainReturned ==
    /\ pc = "idle" /\ pc' = "idle"
    /\ Running("slave") /\ status'["slave"] = "running"
    /\ sockq # <<>>
    /\ Len(sockq') < Len(sockq)

C1_DrainAppliesNewestOnly ==
    [][DrainReturned =>
          /\ sockq' = <<>>
          /\ nrecv' = Len(sockq)
          /\ \E R \in SnapshotsOf(Last(sockq)) :
                AsMap(SlaveList') =
                    AsMap(R) \cup {m \in AsMap(SlaveList) : m[1] \notin NamesOf(R)}]_vars

\* a drain of two datagrams has returned, the first of them being different
\* from what the list now holds
C1_Witness ==
    /\ pc = "idle" /\ Running("slave")
    /\ nrecv >= 2
    /\ \E d \in sent : \E R \in SnapshotsOf(d) :
          /\ NamesOf(R) = NamesOf(SlaveList)
          /\ AsMap(R) # AsMap(SlaveList)

(***************************************************************************)
(* C2 as stated.  Between update calls the slave's list, as a map, is      *)
(* empty or equal to one snapshot the master sent.                         *)
(***************************************************************************)
C2_OneSnapshot ==
    (pc = "idle" /\ SlaveList # <<>>) =>
        \E d \in sent : \E R \in SnapshotsOf(d) : AsMap(SlaveList) = AsMap(R)

(***************************************************************************)
(* C2 amended.  Between update calls the slave's list is empty, or it      *)
(* holds every record of one snapshot the master sent and each of its      *)
(* other records holds the bytes its name had in some snapshot the master  *)
(* sent.                                                                   *)
(***************************************************************************)
C2_SnapshotPlusOlderRecords ==
    (pc = "idle" /\ SlaveList # <<>>) =>
        LET snapshots == {w[2] : w \in {x \in MasterWires : x[1] \in sent}}
        IN  /\ \E S \in snapshots : S \subseteq AsMap(SlaveList)
            /\ AsMap(SlaveList) \subseteq UNION snapshots
            /\ Cardinality(NamesOf(SlaveList)) = Len(SlaveList)

\* the list mixes two snapshots: it equals none of those sent
C2_Witness ==
    /\ pc = "idle" /\ Running("slave") /\ SlaveList # <<>>
    /\ \A d \in sent : \A R \in SnapshotsOf(d) : AsMap(SlaveList) # AsMap(R)

(***************************************************************************)
(* C3.  A slave update started with a time stamp T set and now - T at      *)
(* least the liveness window ends the process for liveness before reading: *)
(* no recvfrom returns, the pending datagrams stay pending and the list    *)
(* and T are as before.  An update started inside the window never ends    *)
(* for liveness.                                                           *)
(***************************************************************************)
\* a step of the slave process
SlaveStep ==
    \/ status'["slave"] # status["slave"]
    \/ pc' # pc
    \/ SlaveList' # SlaveList
    \/ dgr_time_lastreceive' # dgr_time_lastreceive
    \/ Len(sockq') < Len(sockq)

WindowElapsed ==
    dgr_time_lastreceive # 0 /\ now - dgr_time_lastreceive >= LivenessSeconds

C3_LivenessWindow ==
    [][/\ (Running("slave") /\ pc = "idle" /\ WindowElapsed /\ SlaveStep) =>
              /\ status'["slave"] = "liveness"
              /\ nrecv' = 0
              /\ sockq' = sockq
              /\ SlaveList' = SlaveList
              /\ dgr_time_lastreceive' = dgr_time_lastreceive
       /\ (Running("slave") /\ status'["slave"] = "liveness") =>
              (pc = "idle" /\ WindowElapsed)]_vars

\* the process ended for liveness with a datagram pending
C3_Witness ==
    /\ status["slave"] = "liveness"
    /\ sockq # <<>>
    /\ now - dgr_time_lastreceive = LivenessSeconds

(***************************************************************************)
(* C4.  While the slave has received nothing, an update that finds nothing *)
(* pending waits in poll for the grace period and ends the process when    *)
(* the period passes with nothing arrived; a datagram that arrives is      *)
(* drained and applied and the time stamp leaves 0.  Once the time stamp   *)
(* has left 0 it never returns to 0, and the slave is never again in the   *)
(* blocking poll.                                                          *)
(***************************************************************************)
C4_GracePeriod ==
    [][/\ (Running("slave") /\ pc = "idle" /\ dgr_time_lastreceive = 0
              /\ sockq = <<>> /\ SlaveStep /\ status'["slave"] # "poll") =>
              /\ pc' = "poll"
              /\ pollDeadline' = now + GraceTimeoutMs \div 1000
              /\ status'["slave"] = "running"
       /\ (Running("slave") /\ status'["slave"] = "timeout") =>
              /\ pc = "poll" /\ dgr_time_lastreceive = 0
              /\ sockq = <<>> /\ now = pollDeadline
       /\ (Running("slave") /\ pc = "poll" /\ pc' = "idle"
              /\ status'["slave"] = "running") =>
              /\ sockq # <<>> /\ sockq' = <<>>
              /\ dgr_time_lastreceive' = now /\ now # 0
              /\ \E R \in SnapshotsOf(Last(sockq)) : AsMap(R) \subseteq AsMap(SlaveList')
       /\ dgr_time_lastreceive # 0 =>
              (dgr_time_lastreceive' # 0 /\ pc # "poll" /\ pc' # "poll")]_vars

\* the grace period ran out
C4_Witness ==
    /\ status["slave"] = "timeout"
    /\ now = 1 + GraceTimeoutMs \div 1000

\* the slave's first datagram arrived during the blocking poll
C4_WitnessArrived ==
    /\ Running("slave") /\ pc = "idle"
    /\ dgr_time_lastreceive > 1
    /\ SlaveList # <<>>

(***************************************************************************)
(* C5.  Every datagram the master hands to the network carries exactly one *)
(* record for every name the application has set so far, with the bytes of *)
(* the last dgr_setget of that name.                                       *)
(***************************************************************************)
WrittenMap == {<< n, written[n] >> : n \in DOMAIN written}

C5_FullSnapshot ==
    [][(nsends' = nsends + 1 /\ status'["master"] = "running") =>
          \E d \in net' :
             /\ sent' = sent \cup {d}
             /\ net' = net \cup {d}
             /\ \E R \in SnapshotsOf(d) :
                   /\ AsMap(R) = WrittenMap
                   /\ Len(R) = Cardinality(DOMAIN written)]_vars

\* a datagram with two records was sent after a name had been set again
C5_Witness ==
    /\ Cardinality(DOMAIN written) = 2
    /\ nsends = 2
    /\ Cardinality(sent) = 2
    /\ dgr_serialize(MasterList) \in sent

(***************************************************************************)
(* SpecCodec: dgr_serialize and dgr_unserialize applied one after the     *)
(* other.  The master holds a list drawn from CodecLists; the slave, whose *)
(* list is empty, is handed the serialized bytes; its application reads    *)
(* with dgr_setget.                                                        *)
(***************************************************************************)
CodecNames == {<<>>, <<1>>, <<2, 1>>}
CodecValues == {<<>>, <<0>>, <<1, 0>>, <<0, 2>>}
\* the variable "score", an int
ScoreName == <<115, 99, 111, 114, 101>>
ScoreValue == <<10, 0, 0, 0>>
ScoreList == <<dgr_record(ScoreName, SizeofInt, ScoreValue)>>
CodecLists ==
    UNION {ListsOfLen(CodecNames, CodecValues, k) : k \in 0..MaxRecords} \cup {ScoreList}
UnknownName == <<3>>
CodecBufferSizes == {0, 1, 2, 3, SizeofInt}

\* what the application has set to build the list
WrittenOf(list) ==
    [n \in NamesOf(list) |-> list[CHOOSE i \in 1..Len(list) : list[i].name = n].buffer]

InitCodec ==
    /\ dgr_list \in {[p \in Procs |-> IF p = "master" THEN R ELSE <<>>] : R \in CodecLists}
    /\ written = WrittenOf(dgr_list["master"])
    /\ dgr_disabled = [p \in Procs |-> 0]
    /\ dgr_time_lastreceive = 0
    /\ status = [p \in Procs |-> "running"]
    /\ now = 1
    /\ sent = {}
    /\ nsends = 0
    /\ net = {}
    /\ sockq = <<>>
    /\ pc = "idle"
    /\ pollDeadline = 0
    /\ nrecv = 0
    /\ oob = FALSE
    /\ call = NoCall

\* buf = dgr_serialize(&size) on the master, dgr_unserialize(size, buf) on
\* the slave; sent keeps the bytes
RoundTrip ==
    /\ Running("master") /\ Running("slave")
    /\ sent = {}
    /\ dgr_list["slave"] = <<>>
    /\ LET buf == dgr_serialize(dgr_list["master"])
           size == SpaceNeeded(dgr_list["master"])
       IN  \E tail \in TailsFor(Take(buf, size)), ub \in UBFor(dgr_list["slave"]) :
           LET un == dgr_unserialize(dgr_list["slave"], size, Take(buf, size) \o tail, ub)
           IN  /\ sent' = {Take(buf, size)}
               /\ dgr_list' = [dgr_list EXCEPT !["slave"] = un.list]
               /\ status' = [status EXCEPT !["slave"] =
                                 IF un.status = "ok" THEN "running" ELSE un.status]
               /\ oob' = un.oob
    /\ UNCHANGED << dgr_disabled, dgr_time_lastreceive, now, nsends, net, sockq, pc,
                    pollDeadline, nrecv, written, call >>

NextCodec ==
    \/ RoundTrip
    \/ \E name \in CodecNames \cup {UnknownName, ScoreName},
          bufferSize \in CodecBufferSizes :
           SlaveSetGet(name, bufferSize)

SpecCodec == InitCodec /\ [][NextCodec]_vars

(***************************************************************************)
(* C7.  The slave's list after dgr_unserialize of the master's serialized  *)
(* list into an empty list is the master's list: the same records in the   *)
(* same order, each with the same name, size and bytes (lists of up to     *)
(* MaxRecords records; the empty name, data of length 0 and 0 bytes in the *)
(* data included).                                                         *)
(***************************************************************************)
C7_RoundTrip ==
    sent # {} =>
        /\ SlaveList = MasterList
        /\ Running("slave")
        /\ ~oob

\* a list of MaxRecords records with the empty name, an empty buffer and a
\* 0 byte in a buffer has made the round trip
C7_Witness ==
    /\ sent # {}
    /\ Len(SlaveList) = MaxRecords
    /\ \E i \in 1..Len(SlaveList) : SlaveList[i].name = <<>>
    /\ \E i \in 1..Len(SlaveList) : SlaveList[i].size = 0
    /\ \E i \in 1..Len(SlaveList) : SlaveList[i].buffer = <<0, 2>>

(***************************************************************************)
(* C10.  A dgr_get that fails changes nothing: for a name the list does    *)
(* not hold it returns -1, for a name it holds with bufferSize below the   *)
(* record's size it returns -2, and in both cases the caller's buffer and  *)
(* the list are as before and the process goes on running, ready for the   *)
(* next call.                                                              *)
(***************************************************************************)
SizeIn(list, name) == list[dgr_findIndex(list, name) + 1].size

C10_GetErrorsAreLocal ==
    [][(call' # call /\ call'.op = "setget") =>
          /\ (call'.name \notin NamesOf(SlaveList)) <=> (call'.ret = -1)
          /\ (/\ call'.name \in NamesOf(SlaveList)
              /\ call'.bufferSize < SizeIn(SlaveList, call'.name)) <=> (call'.ret = -2)
          /\ call'.ret \in {-1, -2} => call'.buffer = FreshBuffer(call'.bufferSize)
          /\ dgr_list' = dgr_list
          /\ status' = status /\ Running("slave")
          /\ pc' = "idle"]_vars

\* a buffer of one byte was offered for a record of two
C10_Witness ==
    /\ call.op = "setget"
    /\ call.ret = -2
    /\ call.bufferSize = 1
    /\ call.buffer = <<Fill>>

\* an unknown name was asked for
C10_WitnessNotFound ==
    /\ call.op = "setget"
    /\ call.ret = -1
    /\ call.name = UnknownName
    /\ call.buffer = <<Fill, Fill>>
    /\ SlaveList # <<>>

(***************************************************************************)
(* SpecDecode: a slave that holds a small list finds one datagram, of any  *)
(* bytes, at its socket and calls dgr_update.  UDP hands over whatever was *)
(* sent to the port, so the datagram need not come from dgr_serialize.     *)
(***************************************************************************)
DecodeBytes == Bytes \cup {255}
DecodeLists == UNION {ListsOfLen(Names, {<<1>>}, k) : k \in 0..2}
\* two records, and two records of the same name
ExtraDatagrams ==
    { <<1, 0, 1, 0, 0, 0, 2, 2, 0, 1, 0, 0, 0, 2>>,
      <<1, 0, 1, 0, 0, 0, 1, 1, 0, 1, 0, 0, 0, 2>>,
      <<2, 0, 2, 0, 0, 0, 0, 1, 0, 0, 0, 0, 0>> }
TestDatagrams(n) == (SeqsUpTo(DecodeBytes, n) \ {<<>>}) \cup ExtraDatagrams

InitDecode ==
    /\ dgr_list \in {[p \in Procs |-> IF p = "slave" THEN R ELSE <<>>] : R \in DecodeLists}
    /\ written = <<>>
    /\ dgr_disabled = [p \in Procs |-> 0]
    /\ dgr_time_lastreceive = IF dgr_list["slave"] = <<>> THEN 0 ELSE 1
    /\ status = [p \in Procs |-> "running"]
    /\ now = 1
    /\ \E d \in TestDatagrams(MaxDatagramLen) : sent = {d} /\ sockq = <<d>>
    /\ nsends = 0
    /\ net = {}
    /\ pc = "idle"
    /\ pollDeadline = 0
    /\ nrecv = IF dgr_list["slave"] = <<>> THEN 0 ELSE 1
    /\ oob = FALSE
    /\ call = IF dgr_list["slave"] = <<>> THEN NoCall ELSE UpdateCall

\* poll and recvfrom report no error
NextDecode == SlaveUpdate(FALSE, 0, FALSE)

SpecDecode == InitDecode /\ [][NextDecode]_vars

(***************************************************************************)
(* The records of a datagram by the wire format: name, 0x00, four bytes of *)
(* size, size bytes of data, one record after the other up to the last     *)
(* byte.  Malformed when a field runs past the end or a size is negative.  *)
(***************************************************************************)
Malformed == [ok |-> FALSE, recs |-> <<>>]

RECURSIVE PacketRecords(_)
PacketRecords(d) ==
    IF d = <<>> THEN [ok |-> TRUE, recs |-> <<>>]
    ELSE IF \A i \in 1..Len(d) : d[i] # 0 THEN Malformed
    ELSE LET z == CHOOSE i \in 1..Len(d) : d[i] = 0 /\ \A j \in 1..(i - 1) : d[j] # 0
             rest == Drop(d, z)
         IN  IF Len(rest) < SizeofInt THEN Malformed
             ELSE LET n == BytesToInt(Take(rest, SizeofInt))
                      body == Drop(rest, SizeofInt)
                  IN  IF n < 0 \/ n > Len(body) THEN Malformed
                      ELSE LET more == PacketRecords(Drop(body, n))
                           IN  IF ~more.ok THEN Malformed
                               ELSE [ok |-> TRUE,
                                     recs |-> <<[name |-> Take(d, z - 1),
                                                 data |-> Take(body, n)]>> \o more.recs]

WellFormed(d) == PacketRecords(d).ok

\* the data of the last record of the packet with this name
LastDataFor(recs, name) ==
    recs[CHOOSE i \in 1..Len(recs) :
            recs[i].name = name /\ \A j \in (i + 1)..Len(recs) : recs[j].name # name].data

\* the slave has read datagram d, alone at its socket, and decoded it
Decoded(d) == sockq = <<d>> /\ sockq' = <<>>

(***************************************************************************)
(* C6.  Applying a well-formed packet is a merge: afterwards every name of *)
(* the packet has one record holding the packet's bytes for it, every      *)
(* record of the list keeps its position and name, a record whose name the *)
(* packet does not carry is unchanged in size and bytes, and no record is  *)
(* removed; new names are appended.                                        *)
(***************************************************************************)
C6_MergeNotReplace ==
    [][\A d \in sent : (Decoded(d) /\ WellFormed(d)) =>
          LET recs == PacketRecords(d).recs
              carried == {recs[i].name : i \in 1..Len(recs)}
              old == SlaveList
              new == SlaveList'
          IN  /\ Len(new) >= Len(old)
              /\ \A i \in 1..Len(old) :
                     /\ new[i].name = old[i].name
                     /\ old[i].name \notin carried => new[i] = old[i]
              /\ NamesOf(new) = NamesOf(old) \cup carried
              /\ Len(new) = Cardinality(NamesOf(new))
              /\ \A i \in 1..Len(new) :
                     new[i].name \in carried =>
                         /\ new[i].buffer = LastDataFor(recs, new[i].name)
                         /\ new[i].size = Len(new[i].buffer)
              /\ status'["slave"] = "running"]_vars

\* a packet carrying only name 2 was applied to a list holding 2, then 1,
\* both with the byte 1: the record of 2 has the packet's byte, in place
C6_Witness ==
    /\ sent = {<<2, 0, 1, 0, 0, 0, 2>>}
    /\ sockq = <<>>
    /\ SlaveList = <<dgr_record(<<2>>, 1, <<2>>), dgr_record(<<1>>, 1, <<1>>)>>

(***************************************************************************)
(* C8.  As the specification states it: decoding never reads a byte at or  *)
(* beyond the end of the datagram, and a datagram whose name, size field   *)
(* or data run past its end is refused with a decoding error.              *)
(***************************************************************************)
C8_DecodeBounded ==
    /\ ~oob
    /\ \A d \in sent : (sockq = <<>> /\ ~WellFormed(d)) => status["slave"] = "decode error"

(***************************************************************************)
(* SpecCap: a master whose application has set DGR_MAX_LIST_SIZE - 1       *)
(* variables goes on calling dgr_setget, with new names and with a name    *)
(* the list holds.                                                         *)
(***************************************************************************)
PrefillName(i) == <<3 + (i % 250), 3 + (i \div 250)>>
PrefillList(k) == [i \in 1..k |-> dgr_record(PrefillName(i), 1, <<1>>)]
CapNames == {<<1>>, <<2>>, <<1, 1>>, <<2, 2>>, PrefillName(1)}

InitCap ==
    /\ dgr_list = [p \in Procs |->
                      IF p = "master" THEN PrefillList(DGR_MAX_LIST_SIZE - 1) ELSE <<>>]
    /\ written = [n \in {PrefillName(i) : i \in 1..(DGR_MAX_LIST_SIZE - 1)} |-> <<1>>]
    /\ dgr_disabled = [p \in Procs |-> 0]
    /\ dgr_time_lastreceive = 0
    /\ status = [p \in Procs |-> "running"]
    /\ now = 1
    /\ sent = {}
    /\ nsends = 0
    /\ net = {}
    /\ sockq = <<>>
    /\ pc = "idle"
    /\ pollDeadline = 0
    /\ nrecv = 0
    /\ oob = FALSE
    /\ call = NoCall

NextCap ==
    \E name \in CapNames, buffer \in Values, ub \in UBFor(dgr_list["master"]) :
        MasterSetGet(name, buffer, ub)

SpecCap == InitCap /\ [][NextCap]_vars

(***************************************************************************)
(* C9.  As the specification states it: a set with a new name fails when   *)
(* the list already holds DGR_MAX_LIST_SIZE records, so no list ever holds *)
(* more than DGR_MAX_LIST_SIZE records and no record lies beyond the last  *)
(* slot of the table.                                                      *)
(***************************************************************************)
C9_CapacityRespected ==
    \A p \in Procs : Len(dgr_list[p]) <= DGR_MAX_LIST_SIZE

(***************************************************************************)
(* C11.  As the comment of dgr_setget states it: on a slave the caller's   *)
(* buffer is as before whenever the name is unknown or bufferSize differs  *)
(* from the size of the record, smaller or larger.                         *)
(***************************************************************************)
C11_BufferUnchangedOnMismatch ==
    [][(call' # call /\ call'.op = "setget") =>
          ((\/ call'.name \notin NamesOf(SlaveList)
            \/ call'.bufferSize # SizeIn(SlaveList, call'.name))
              => call'.buffer = FreshBuffer(call'.bufferSize))]_vars

(***************************************************************************)
(* SpecDisabled: at least one of the two processes is disabled, as         *)
(* dgr_init leaves it: a master without DGR_MASTER_DEST_IP, or a process   *)
(* without a valid DGR_MODE, which dgr_update and dgr_setget treat as a    *)
(* slave.  A disabled process has no socket, so nothing is delivered.      *)
(***************************************************************************)
InitDisabled ==
    /\ dgr_list = [p \in Procs |-> <<>>]
    /\ dgr_disabled \in [Procs -> {0, 1}] \ {[p \in Procs |-> 0]}
    /\ dgr_time_lastreceive = 0
    /\ status = [p \in Procs |-> "running"]
    /\ now = 1
    /\ sent = {}
    /\ nsends = 0
    /\ net = {}
    /\ sockq = <<>>
    /\ pc = "idle"
    /\ pollDeadline = 0
    /\ nrecv = 0
    /\ oob = FALSE
    /\ written = <<>>
    /\ call = NoCall

NextDisabled ==
    \/ \E name \in Names, buffer \in Values, ub \in UBFor(dgr_list["master"]) :
           MasterSetGet(name, buffer, ub)
    \/ \E outcome \in SendOutcomes : MasterUpdate(outcome)
    \/ \E d \in net : Lose(d)
    \/ \E d \in TickSteps : Tick(d)
    \/ \E pollErr \in BOOLEAN : SlaveUpdate(pollErr, 0, FALSE)
    \/ SlavePollTimeout
    \/ SlavePollError
    \/ \E name \in Names, bufferSize \in BufferSizes : SlaveSetGet(name, bufferSize)

SpecDisabled == InitDisabled /\ [][NextDisabled]_vars

(***************************************************************************)
(* C12.  Whatever a disabled process calls, its list stays empty, it goes  *)
(* on running, and it stays disabled; a disabled master hands nothing to   *)
(* sendto; a disabled slave-side process reads nothing, sets no time       *)
(* stamp, never blocks, and its dgr_setget leaves the caller's buffer as   *)
(* it was.                                                                 *)
(***************************************************************************)
C12_DisabledIsInert ==
    [][/\ dgr_disabled' = dgr_disabled
       /\ \A p \in Procs : dgr_disabled[p] = 1 =>
             /\ dgr_list'[p] = <<>>
             /\ status'[p] = "running"
       /\ dgr_disabled["master"] = 1 =>
             /\ nsends' = 0 /\ sent' = {} /\ net' = {}
             /\ written' = <<>>
       /\ dgr_disabled["slave"] = 1 =>
             /\ sockq' = <<>> /\ nrecv' = 0 /\ oob' = FALSE
             /\ dgr_time_lastreceive' = 0
             /\ pc' = "idle"
             /\ call'.op = "setget" => call'.buffer = FreshBuffer(call'.bufferSize)]_vars

\* both processes disabled, the slave-side application has called dgr_update
C12_Witness ==
    /\ dgr_disabled = [p \in Procs |-> 1]
    /\ call.op = "update"
    /\ dgr_list = [p \in Procs |-> <<>>]

\* the master is disabled and the slave has waited for it in vain
C12_WitnessMaster ==
    /\ dgr_disabled["master"] = 1
    /\ status["slave"] = "timeout"
    /\ sent = {}

(***************************************************************************)
(* SpecSetGet: dgr_set and dgr_get on one list.  The two meet on a slave:  *)
(* dgr_set is called by dgr_unserialize for each record of a packet,       *)
(* dgr_get by dgr_setget.  Packets of one record each, for one name with   *)
(* values of different lengths and for a second name, are on their way to  *)
(* a slave whose list is empty or holds a value of four bytes.             *)
(***************************************************************************)
FourBytes == <<1, 2, 0, 1>>
SetValues == {<<>>, <<7>>, <<0, 2>>}
SetPackets ==
    {dgr_serialize(<<dgr_record(<<1>>, Len(v), v)>>) : v \in SetValues}
        \cup {dgr_serialize(<<dgr_record(<<2>>, 1, <<7>>)>>)}
SetGetBufferSizes == {0, 1, 2, 4}

InitSetGet ==
    /\ dgr_list \in {[p \in Procs |-> IF p = "slave" THEN R ELSE <<>>] :
                        R \in {<<>>, <<dgr_record(<<1>>, 4, FourBytes)>>}}
    /\ written = <<>>
    /\ dgr_disabled = [p \in Procs |-> 0]
    /\ dgr_time_lastreceive = IF dgr_list["slave"] = <<>> THEN 0 ELSE 1
    /\ status = [p \in Procs |-> "running"]
    /\ now = 1
    /\ sent = SetPackets
    /\ net = SetPackets
    /\ sockq = <<>>
    /\ nsends = 0
    /\ pc = "idle"
    /\ pollDeadline = 0
    /\ nrecv = IF dgr_list["slave"] = <<>> THEN 0 ELSE 1
    /\ oob = FALSE
    /\ call = IF dgr_list["slave"] = <<>> THEN NoCall ELSE UpdateCall

\* poll and recvfrom report no error, everything happens within one second
NextSetGet ==
    \/ \E d \in net : Deliver(d)
    \/ SlaveUpdate(FALSE, 0, FALSE)
    \/ SlavePollReady(0, FALSE)
    \/ \E name \in Names, bufferSize \in SetGetBufferSizes : SlaveSetGet(name, bufferSize)

SpecSetGet == InitSetGet /\ [][NextSetGet]_vars

(***************************************************************************)
(* C13.  Last write wins with exact size.  When a packet is applied, the   *)
(* record of each name it carries has the size and exactly the bytes the   *)
(* packet gives it, whatever size the record had; and a dgr_get with       *)
(* bufferSize >= the record's size returns that size and fills the first   *)
(* size bytes of the buffer with the record's bytes, leaving the rest.     *)
(***************************************************************************)
RecordIn(list, name) == list[dgr_findIndex(list, name) + 1]

C13_LastWriteWins ==
    [][/\ (sockq # <<>> /\ sockq' = <<>> /\ status'["slave"] = "running") =>
             LET recs == PacketRecords(Last(sockq)).recs IN
             \A i \in 1..Len(recs) :
                 /\ recs[i].name \in NamesOf(SlaveList')
                 /\ RecordIn(SlaveList', recs[i].name).size = Len(recs[i].data)
                 /\ RecordIn(SlaveList', recs[i].name).buffer = recs[i].data
       /\ (/\ call' # call /\ call'.op = "setget"
           /\ call'.name \in NamesOf(SlaveList)
           /\ call'.bufferSize >= SizeIn(SlaveList, call'.name)) =>
             LET rec == RecordIn(SlaveList, call'.name) IN
             /\ call'.ret = rec.size
             /\ call'.ret = Len(rec.buffer)
             /\ SubSeq(call'.buffer, 1, rec.size) = rec.buffer
             /\ SubSeq(call'.buffer, rec.size + 1, call'.bufferSize)
                    = FreshBuffer(call'.bufferSize - rec.size)]_vars

\* the record that held four bytes holds two, and a dgr_get with a buffer of
\* four bytes has returned 2 and the two bytes
C13_Witness ==
    /\ SlaveList # <<>>
    /\ SlaveList[1] = dgr_record(<<1>>, 2, <<0, 2>>)
    /\ FourBytes \notin SetValues
    /\ call.op = "setget" /\ call.name = <<1>> /\ call.bufferSize = 4
    /\ call.ret = 2
    /\ call.buffer = <<0, 2, Fill, Fill>>

(***************************************************************************)
(* C14.  As the specification states it, for the poll between two receives *)
(* of the read loop: its error ends the process.  The read loop calls      *)
(* recvfrom with nothing pending only after that poll has returned -1, so  *)
(* a slave inside such a recvfrom is a slave that went on after the error. *)
(***************************************************************************)
C14_TransportFailuresFatal ==
    pc = "recvfrom" => status["slave"] # "running"

(***************************************************************************)
(* C15.  The wire format, stated by position.  Record i of the list        *)
(* occupies the bytes from WireOffset(list, i) on: its name, one 0 byte,   *)
(* its size in four bytes (low byte first, the host order of the model)    *)
(* and its size data bytes; record 1 starts at the first byte, each record *)
(* starts where the one before ends, the last ends at the last byte, and   *)
(* the length dgr_serialize reports is that end.                           *)
(***************************************************************************)
LowFirst(n) == [k \in 1..4 |-> (n \div (256 ^ (k - 1))) % 256]
RecordWire(rec) == rec.name \o <<0>> \o LowFirst(rec.size) \o rec.buffer

\* where record i starts, counted from 0; i = Len(list) + 1 gives the end
RECURSIVE WireOffset(_, _)
WireOffset(list, i) ==
    IF i = 1 THEN 0
    ELSE WireOffset(list, i - 1) + Len(list[i - 1].name) + 1 + 4 + list[i - 1].size

C15_WireFormat ==
    \A d \in sent :
        LET list == MasterList
            end == WireOffset(list, Len(list) + 1)
        IN  /\ Len(d) = end
            /\ SpaceNeeded(list) = end
            /\ \A i \in 1..Len(list) :
                   SubSeq(d, WireOffset(list, i) + 1, WireOffset(list, i + 1))
                       = RecordWire(list[i])

\* "score" holding the int 10 was serialized to the 14 bytes of the example
\* and read back on the slave into a buffer of four bytes
C15_Witness ==
    /\ sent = {<<115, 99, 111, 114, 101, 0, 4, 0, 0, 0, 10, 0, 0, 0>>}
    /\ call.op = "setget" /\ call.name = ScoreName
    /\ call.ret = 4
    /\ call.buffer = <<10, 0, 0, 0>>

\* a list of MaxRecords records, one of them without data, was serialized
C15_WitnessLists ==
    /\ sent # {}
    /\ Len(MasterList) = MaxRecords
    /\ \E i \in 1..Len(MasterList) : MasterList[i].size = 0

(***************************************************************************)
(* C16.  A slave update started with the time stamp set, inside the        *)
(* liveness window and with nothing pending returns with the list and the  *)
(* time stamp as they were and the process running, unless its poll        *)
(* reports an error; and whenever the time stamp changes, the step has     *)
(* taken at least one datagram from the socket and the new time stamp is   *)
(* the time of that step.                                                  *)
(***************************************************************************)
C16_EmptyDrain ==
    [][/\ (/\ Running("slave") /\ pc = "idle"
           /\ dgr_time_lastreceive # 0 /\ ~WindowElapsed
           /\ sockq = <<>>
           /\ nrecv' # nrecv) =>
              /\ SlaveList' = SlaveList
              /\ dgr_time_lastreceive' = dgr_time_lastreceive
              /\ sockq' = <<>> /\ nrecv' = 0
              /\ pc' = "idle"
              /\ status'["slave"] \in {"running", "poll"}
       /\ dgr_time_lastreceive' # dgr_time_lastreceive =>
              /\ Len(sockq') < Len(sockq)
              /\ nrecv' >= 1
              /\ dgr_time_lastreceive' = now /\ now' = now]_vars

\* after a receive, a later update found nothing pending and returned
C16_Witness ==
    /\ Running("slave") /\ pc = "idle"
    /\ dgr_time_lastreceive # 0
    /\ now > dgr_time_lastreceive
    /\ now - dgr_time_lastreceive < LivenessSeconds
    /\ nrecv = 0
    /\ sockq = <<>>
    /\ SlaveList # <<>>

(***************************************************************************)
(* C17.  While the master's list is empty no sendto is made and the master *)
(* goes on running; every datagram newly handed to sendto carries at least *)
(* one record; and a step that calls sendto calls it once, with a list     *)
(* that is not empty and with the whole serialized list.                   *)
(***************************************************************************)
C17_NoEmptyPacket ==
    [][/\ MasterList = <<>> =>
              /\ nsends' = nsends /\ sent' = sent /\ net' \subseteq net
              /\ MasterList' = <<>> => status'["master"] = "running"
       /\ \A d \in (sent' \ sent) \cup (net' \ net) :
              /\ d # <<>>
              /\ PacketRecords(d).ok /\ Len(PacketRecords(d).recs) >= 1
       /\ nsends' # nsends =>
              /\ MasterList # <<>>
              /\ nsends' = nsends + 1
              /\ sent' \subseteq sent \cup {dgr_serialize(MasterList)}
              /\ status'["master"] = "running" => dgr_serialize(MasterList) \in sent']_vars

\* the master has called sendto once, for a list of one record, and the
\* datagram is on its way
C17_Witness ==
    /\ nsends = 1
    /\ net # {}
    /\ \A d \in net : Len(PacketRecords(d).recs) = 1
    /\ Running("master")

(***************************************************************************)
(* C18.  In both processes the names of the list are pairwise different,   *)
(* and every step leaves the names the list had where they were: the list  *)
(* never shrinks, a name never moves, a new name goes to the end.          *)
(***************************************************************************)
C18_NameSequence ==
    [][\A p \in Procs :
          /\ Len(dgr_list'[p]) >= Len(dgr_list[p])
          /\ \A i \in 1..Len(dgr_list[p]) : dgr_list'[p][i].name = dgr_list[p][i].name
          /\ Cardinality(NamesOf(dgr_list'[p])) = Len(dgr_list'[p])]_vars

\* two different snapshots were sent and both lists hold two records, in
\* different order or with different bytes
C18_Witness ==
    /\ Len(MasterList) = 2 /\ Len(SlaveList) = 2
    /\ Cardinality(sent) = 2
    /\ SlaveList # MasterList
    /\ nrecv >= 1

(***************************************************************************)
(* C19.  Whenever the slave's last call was dgr_update and it has returned *)
(* (the process is running and not inside the call), the time stamp is set *)
(* and the list holds at least one record.                                 *)
(***************************************************************************)
C19_UpdateReturnsWithData ==
    (call.op = "update" /\ pc = "idle" /\ Running("slave")) =>
        /\ dgr_time_lastreceive # 0
        /\ SlaveList # <<>>

\* the first dgr_update waited in poll, a datagram arrived, and the call
\* returned with one record in the list
C19_Witness ==
    /\ call.op = "update" /\ pc = "idle" /\ Running("slave")
    /\ pollDeadline # 0
    /\ nrecv = 1
    /\ dgr_time_lastreceive # 0
    /\ Len(SlaveList) = 1

(***************************************************************************)
(* C20.  As the specification states it, for a datagram whose first record *)
(* has a negative size field that lies inside the datagram: the record     *)
(* loop comes to its end, so the slave that has decoded the datagram is    *)
(* running.                                                                *)
(***************************************************************************)
\* the size field of the first record is inside d and negative
FirstSizeNegative(d) ==
    \E z \in 1..Len(d) :
        /\ d[z] = 0 /\ \A j \in 1..(z - 1) : d[j] # 0
        /\ z + SizeofInt <= Len(d)
        /\ BytesToInt(SubSeq(d, z + 1, z + SizeofInt)) < 0

C20_DecodeTerminates ==
    \A d \in sent :
        (sockq = <<>> /\ nrecv >= 1 /\ FirstSizeNegative(d)) => Running("slave")

====
